---- MODULE Spec2Model ----
(***************************************************************************)
(* Match orchestration engine of colosseumrl.                              *)
(*                                                                         *)
(*  - the matchmaking scheduler of matchmaking/MatchmakingServer.py        *)
(*    (GetMatch handlers, MatchmakingLoginThread, MatchmakingThread,       *)
(*    MatchProcessJanitor) with the logged-in set and the user table of    *)
(*    matchmaking/RankingDatabase.py: specification SpecSched;             *)
(*  - the match server of match_server.py (server_app) with the sessions   *)
(*    (Player rows) of data_model.py: specification SpecMatch.             *)
(***************************************************************************)
EXTENDS Integers, Sequences, FiniteSets, TLC

(***************************************************************************)
(* Bounds of the model and program constants.                              *)
(***************************************************************************)
\* number of GetMatch calls that the login thread accepts in one run
MaxRequests == 4

\* number of sessions (Player rows) that are ever added to one match server
MaxSessions == 3

\* TestGame.min_players / TestGame.max_players (the default environment)
MinPlayers == 2
MaxPlayers == 2

\* start_matchmaking_server(max_games=1): max_simultaneous_games
MaxGames == 1

\* login names: "A" and "a" differ only in letter case
Usernames == {"a", "A", "b"}
Passwords == {"p", "q"}
\* the (username, password) pairs clients send: only "A" ever presents "q"
Logins == {<<"a", "p">>, <<"A", "p">>, <<"A", "q">>, <<"b", "p">>}
NoPassword == "none"
NoUser == "nobody"

\* str.lower() on the login names of the model
Lower(u) == IF u = "A" THEN "a" ELSE u

LowerNames == {Lower(u) : u \in Usernames}

Identities == 1..MaxRequests

\* a match consumes players_per_game requests, so at most this many matches
MaxMatches == MaxRequests \div MinPlayers
Matches == 1..MaxMatches

\* range(starting_port, starting_port + 2 * max_simultaneous_games), as offsets
PortRange == 0..(2 * MaxGames - 1)

RECURSIVE AscendingSeq(_)
AscendingSeq(S) ==
    IF S = {} THEN <<>>
    ELSE LET x == CHOOSE y \in S : \A z \in S : y <= z
         IN <<x>> \o AscendingSeq(S \ {x})

SeqToSet(s) == {s[i] : i \in 1..Len(s)}

RemoveFromSeq(s, x) == SelectSeq(s, LAMBDA y : y # x)

VARIABLES
    \* ---- RankingDatabase ----
    db,                 \* userz table: lowercase username -> password hash
    logged_in,          \* RankingDatabase.__logged_in
    \* ---- GetMatch handlers (one per request identity) ----
    nextId,             \* next unused request identity
    cstate,             \* identity -> "idle" | "fail_duplicate" | "fail_password" |
                        \*             "waiting" | "quit" | "served"
    cuser,              \* identity -> request.username
    cpass,              \* identity -> request.password
    \* ---- queues and sockets ----
    connection_queue,   \* Queue filled by the login thread
    notices,            \* disconnect notices waiting on the ROUTER socket
    \* ---- MatchmakingThread ----
    apc,                \* position of the allocation loop
    requests,           \* OrderedDict of pending requests, oldest first
    new_players,        \* players selected for the match being started
    cur,                \* index of the match being started
    match_limit,        \* Semaphore(max_simultaneous_games)
    ports_to_use,       \* Queue of free ports
    \* ---- MatchProcessJanitor / match worker, one per match ----
    mpc,                \* position of janitor and worker
    mport,              \* match_server_args['port']
    mplayers,           \* identities selected for the match (player_list, whitelist)
    ready,              \* MatchProcessJanitor.ready event
    sent,               \* coordinates of this match sent to the first client
    result,             \* what app.start returned, while the janitor thread runs
    updates,            \* match -> number of update_ranking calls of its janitor
    mwhitelist,         \* match -> the whitelist given to its janitor
    replies             \* identity -> the match replies sent to its socket

(***************************************************************************)
(* The table of RankingDatabase and the threads that call the store        *)
(***************************************************************************)
VARIABLES
    userz,              \* the rows of table userz, in insertion order
    lpc,                \* login thread: where it is inside login / set
    lreq,               \* login thread: <<username, password>> of its call
    lentry,             \* login thread: the row that get() returned
    jpc,                \* janitor -> where it is inside update_ranking / logoff
    jnames,             \* janitor -> the keys of the ranking map of its match
    jentries,           \* janitor -> the rows that get_multi returned
    jleft               \* janitor -> the usernames it has still to log off

storeVars == <<userz, lpc, lreq, lentry, jpc, jnames, jentries, jleft>>

schedVars == <<db, logged_in, nextId, cstate, cuser, cpass, connection_queue, notices,
               apc, requests, new_players, cur, match_limit, ports_to_use,
               mpc, mport, mplayers, ready, sent, result, updates, mwhitelist,
               replies, storeVars>>

\* the scheduler's variables other than the logged-in set
schedRest == <<db, nextId, cstate, cuser, cpass, connection_queue, notices,
               apc, requests, new_players, cur, match_limit, ports_to_use,
               mpc, mport, mplayers, ready, sent, result, updates, mwhitelist,
               replies>>

\* Player.pid of the sessions of the match server
Sessions == 1..MaxSessions

\* authentication keys clients present: two whitelisted tokens and another key
Tokens == {"t1", "t2"}
Keys == Tokens \cup {"x"}
NoKey == "none"

VARIABLES
    \* ---- server_app ----
    spc,                \* phase of the match server
    whitelist,          \* the whitelist argument (empty: none)
    whitelist_connected,\* dict: key -> is a connected player holding it
    ready_event,        \* the ready_event of the janitor has been set
    players,            \* dict of acknowledged players, as the list of its pids
    observations,       \* pids with an observation and an observation dataframe
    num_players,        \* the num_players given to env.new_state, -1 before
    ret,                \* return value of server_app
    \* ---- ServerState row ----
    terminal,
    server_no_longer_joinable,
    \* ---- Player rows of the dataframe ----
    rows,               \* pids of the Player rows in the dataframe
    authentication_key, \* pid -> Player.authentication_key (NoKey: never created)
    number,             \* pid -> Player.number
    ready_for_start,    \* pids with Player.ready_for_start set
    \* ---- history ----
    ever_accepted,      \* pids the server has acknowledged at some time
    rejected            \* pids whose row the server has deleted

matchVars == <<spc, whitelist, whitelist_connected, ready_event, players,
               observations, num_players, ret, terminal, server_no_longer_joinable,
               rows, authentication_key, number, ready_for_start, ever_accepted,
               rejected>>

\* the timeouts of server_app, in tick periods of its FrameRateKeeper
StartTicks == 2
MoveTicks == 2
EndTicks == 2

\* what clients write into Player.action: two valid actions, one invalid, and
\* the empty string every Player starts with
Actions == {"", "hit", "miss", "bad"}

\* display names the clients of a match give themselves
Names == {"a", "b"}

\* seat numbers of a match of min_players sessions
SeatNumbers == 0..(MinPlayers - 1)

\* winners = None, as next_state returns it for a game that has not ended
None == <<-1>>

VARIABLES
    \* ---- the game of server_app ----
    env_kind,           \* "test": TestGame; "any": some other BaseEnvironment
    realtime,           \* args['realtime']
    calls,              \* number of next_state calls so far, modulo 2
    player_turns,       \* the turn-holder list, seat numbers
    elapsed,            \* ticks since fr.start_timeout
    endk,               \* position in players of the loop of lines 248-250
    winners,            \* winners of the last next_state
    ranking_dict,       \* the ranking map server_app returns, name -> ranking
    \* ---- Player rows of the dataframe ----
    name,               \* pid -> Player.name
    action,             \* pid -> Player.action
    turn,               \* pids with Player.turn set
    ready_for_action_to_be_taken,   \* pids with the flag set
    reward_from_last_turn,          \* pid -> Player.reward_from_last_turn
    acknowledges_game_over,         \* pids with the flag set
    winner,             \* pids with Player.winner set
    \* ---- the clients ----
    cpc                 \* pid -> where its ClientEnvironment stands

gameVars == <<env_kind, realtime, calls, player_turns, elapsed, endk, winners,
              ranking_dict, name, action, turn, ready_for_action_to_be_taken,
              reward_from_last_turn, acknowledges_game_over, winner, cpc>>

vars == <<schedVars, matchVars, gameVars>>

(***************************************************************************)
(* RankingDatabase                                                         *)
(***************************************************************************)
\* RankingDatabase.login: the outcome of the login check
\* faulty variant: the logged-in set is not consulted
login_without_duplicate_test(u, pw) ==
    IF db[Lower(u)] = NoPassword THEN "NoUser"
    ELSE IF db[Lower(u)] # pw THEN "LoginFail"
    ELSE "LoginSuccess"

login(u, pw) ==
    IF db[Lower(u)] = NoPassword THEN "NoUser"
    ELSE IF db[Lower(u)] # pw THEN "LoginFail"
    ELSE IF u \in logged_in THEN "LoginDuplicate"
    ELSE "LoginSuccess"

\* RankingDatabase.set: a record for the lowercased username
set(d, u, pw) == [d EXCEPT ![Lower(u)] = pw]

\* faulty variant: a duplicate login is let through
login_fails_wrong_password_only(r) == r = "LoginFail"

\* MatchmakingLoginThread.run, lines 186-196: the two results answered with FAIL
login_fails(r) == r \in {"LoginDuplicate", "LoginFail"}

\* MatchmakingLoginThread.run, lines 186-203: the reply sent for a login result,
\* as the state of the request: a FAIL with its message, or SUCCESS after which
\* the handler waits for its match
login_reply(r) ==
    IF ~login_fails(r) THEN "waiting"
    ELSE IF r = "LoginDuplicate" THEN "fail_duplicate" ELSE "fail_password"

\* MatchmakingLoginThread.run, line 202: secrets.token_hex(32), the token generated
\* for the login of identity id; two logins never get the same token
token_hex(id) == <<"token", id>>

\* RankingDatabase.logoff: set.remove raises KeyError on a missing name
logoffRaises(L, u) == u \notin L

logoff(L, u) == L \ {u}

(***************************************************************************)
(* Initial state: MatchmakingThread.__init__                               *)
(***************************************************************************)
InitSched ==
    /\ db = [n \in LowerNames |-> NoPassword]
    /\ logged_in = {}
    /\ nextId = 1
    /\ cstate = [i \in Identities |-> "idle"]
    /\ cuser = [i \in Identities |-> NoUser]
    /\ cpass = [i \in Identities |-> NoPassword]
    /\ connection_queue = <<>>
    /\ notices = <<>>
    /\ apc = "poll"
    /\ requests = <<>>
    /\ new_players = <<>>
    /\ cur = 0
    /\ match_limit = MaxGames
    /\ \E in_use \in SUBSET PortRange :
          /\ Cardinality(PortRange \ in_use) >= MaxGames
          /\ ports_to_use = AscendingSeq(PortRange \ in_use)
    /\ mpc = [m \in Matches |-> "none"]
    /\ mport = [m \in Matches |-> -1]
    /\ mplayers = [m \in Matches |-> <<>>]
    /\ ready = [m \in Matches |-> FALSE]
    /\ sent = [m \in Matches |-> FALSE]
    /\ result = [m \in Matches |-> "none"]
    /\ updates = [m \in Matches |-> 0]
    /\ mwhitelist = [m \in Matches |-> <<>>]
    /\ replies = [i \in Identities |-> <<>>]

(***************************************************************************)
(* MatchMakingHandler.GetMatch with MatchmakingLoginThread.run             *)
(***************************************************************************)
\* one request/reply exchange with the login thread
GetMatch(u, pw) ==
    /\ nextId <= MaxRequests
    /\ LET id == nextId
           r == login(u, pw)
       IN /\ nextId' = nextId + 1
          /\ cuser' = [cuser EXCEPT ![id] = u]
          /\ cpass' = [cpass EXCEPT ![id] = pw]
          /\ cstate' = [cstate EXCEPT ![id] = login_reply(r)]
          /\ IF login_fails(r)
             THEN UNCHANGED <<db, logged_in, connection_queue>>
             ELSE /\ db' = IF r = "NoUser" THEN set(db, u, pw) ELSE db
                  /\ logged_in' = logged_in \cup {u}
                  /\ connection_queue' = Append(connection_queue, id)
    /\ UNCHANGED <<matchVars, gameVars, storeVars, mwhitelist, replies, updates, notices, apc, requests, new_players, cur, match_limit,
                   ports_to_use, mpc, mport, mplayers, ready, sent, result>>

\* the poll times out while the client is gone: the handler sends its notice
Disconnect(id) ==
    /\ cstate[id] = "waiting"
    /\ cstate' = [cstate EXCEPT ![id] = "quit"]
    /\ notices' = Append(notices, id)
    /\ UNCHANGED <<matchVars, gameVars, storeVars, mwhitelist, replies, updates, cpass, db, logged_in, nextId, cuser, connection_queue, apc, requests,
                   new_players, cur, match_limit, ports_to_use, mpc, mport,
                   mplayers, ready, sent, result>>

(***************************************************************************)
(* MatchmakingThread                                                       *)
(***************************************************************************)
\* MatchmakingThread.__init__: players_per_game = env.min_players
players_per_game == MinPlayers

\* faulty variant: popitem(last=True), the newest entries are taken
select_players_newest(reqs) ==
    [players |-> SubSeq(reqs, Len(reqs) - players_per_game + 1, Len(reqs)),
     rest    |-> SubSeq(reqs, 1, Len(reqs) - players_per_game)]

\* faulty variant: every pending request is taken
select_players_all(reqs) ==
    [players |-> reqs, rest |-> <<>>]

\* select_players: popitem(last=False), players_per_game times
select_players(reqs) ==
    [players |-> SubSeq(reqs, 1, players_per_game),
     rest    |-> SubSeq(reqs, players_per_game + 1, Len(reqs))]

\* run, lines 321-329: the disconnect notices on the socket are handled in order:
\* logoff (which raises KeyError for a name that is not logged in), then
\* requests.pop(quitting_identity, 0)
RECURSIVE handleNotices(_, _, _)
handleNotices(L, reqs, ns) ==
    IF ns = <<>> THEN [set |-> L, requests |-> reqs, notices |-> ns, raised |-> FALSE]
    ELSE LET quitting_identity == Head(ns)
             quitting_username == cuser[quitting_identity]
         IN IF logoffRaises(L, quitting_username)
            THEN [set |-> L, requests |-> reqs, notices |-> Tail(ns), raised |-> TRUE]
            ELSE handleNotices(logoff(L, quitting_username),
                               RemoveFromSeq(reqs, quitting_identity), Tail(ns))

\* run, lines 307-332: one pass of the loop head. get(timeout=5.0) returns or times
\* out, everything the login thread has queued is moved into requests, the notices
\* are handled, and the number of pending requests is compared with
\* players_per_game. The pass makes no blocking call after get(), while a handler
\* sends its notice only after a 500 ms poll: the pass is one step.
AllocPoll ==
    /\ apc = "poll"
    /\ LET drained == requests \o connection_queue
           h == handleNotices(logged_in, drained, notices)
       IN /\ connection_queue' = <<>>
          /\ notices' = h.notices
          /\ logged_in' = h.set
          /\ requests' = h.requests
          /\ apc' = IF h.raised THEN "dead"
                    ELSE IF Len(h.requests) >= players_per_game THEN "acquire"
                    ELSE "poll"
    /\ UNCHANGED <<matchVars, gameVars, storeVars, mwhitelist, replies, updates, cpass, db, nextId, cstate, cuser, new_players, cur, match_limit,
                   ports_to_use, mpc, mport, mplayers, ready, sent, result>>

\* faulty variant: the match is started without taking a permit
AllocAcquireSkipped ==
    /\ apc = "acquire"
    /\ apc' = "spawn"
    /\ UNCHANGED <<matchVars, gameVars, storeVars, mwhitelist, replies, updates, cpass, db, logged_in, nextId, cstate, cuser, connection_queue, notices,
                   requests, new_players, cur, match_limit, ports_to_use, mpc, mport,
                   mplayers, ready, sent, result>>

\* run, line 334: match_limit.acquire() blocks while no permit is free
AllocAcquire ==
    /\ apc = "acquire"
    /\ match_limit > 0
    /\ match_limit' = match_limit - 1
    /\ apc' = "spawn"
    /\ UNCHANGED <<matchVars, gameVars, storeVars, mwhitelist, replies, updates, cpass, db, logged_in, nextId, cstate, cuser, connection_queue, notices,
                   requests, new_players, cur, ports_to_use, mpc, mport, mplayers,
                   ready, sent, result>>

\* run, line 338: whitelist = [player[2] for player in new_players]
whitelist_of(sel) == [i \in 1..Len(sel) |-> token_hex(sel[i])]

\* run, lines 337-351: select the players, draw a port, start the janitor
AllocSpawn ==
    /\ apc = "spawn"
    /\ ports_to_use # <<>>
    /\ LET sel == select_players(requests)
           m == cur + 1
       IN /\ new_players' = sel.players
          /\ requests' = sel.rest
          /\ cur' = m
          /\ ports_to_use' = Tail(ports_to_use)
          /\ mport' = [mport EXCEPT ![m] = Head(ports_to_use)]
          /\ mplayers' = [mplayers EXCEPT ![m] = sel.players]
          /\ mwhitelist' = [mwhitelist EXCEPT ![m] = whitelist_of(sel.players)]
          /\ mpc' = [mpc EXCEPT ![m] = "boot"]
    /\ apc' = "wait"
    /\ UNCHANGED <<matchVars, gameVars, storeVars, replies, updates, cpass, db, logged_in, nextId, cstate, cuser, connection_queue, notices,
                   match_limit, ready, sent, result>>

\* faulty variant: the loop goes on to reply without waiting for the event
AllocWaitSkipped ==
    /\ apc = "wait"
    /\ apc' = "send"
    /\ UNCHANGED <<matchVars, gameVars, storeVars, mwhitelist, replies, updates, cpass, db, logged_in, nextId, cstate, cuser, connection_queue, notices,
                   requests, new_players, cur, match_limit, ports_to_use, mpc,
                   mport, mplayers, ready, sent, result>>

\* run, line 355: match_janitor.ready.wait()
AllocWait ==
    /\ apc = "wait"
    /\ ready[cur]
    /\ apc' = "send"
    /\ UNCHANGED <<matchVars, gameVars, storeVars, mwhitelist, replies, updates, cpass, db, logged_in, nextId, cstate, cuser, connection_queue, notices,
                   requests, new_players, cur, match_limit, ports_to_use, mpc,
                   mport, mplayers, ready, sent, result>>

\* run, lines 353-354: the names get_multi returns are the stored, lowercase ones
database_entries(sel) == {Lower(cuser[sel[i]]) : i \in 1..Len(sel)}

\* run, line 362: database_entries[request.username] raises KeyError on a missing key
FirstMissing(sel) ==
    LET bad == {i \in 1..Len(sel) : cuser[sel[i]] \notin database_entries(sel)}
    IN IF bad = {} THEN Len(sel) + 1
       ELSE CHOOSE i \in bad : \A j \in bad : i <= j

\* run, lines 359-363: the reply for the request of identity id, with the port
\* of the match and the token that was queued with the request
QuickMatchReply(id, match_port) ==
    [username |-> cuser[id], server |-> match_port, auth_key |-> token_hex(id)]

\* run, lines 358-365: reply to the selected players in order
AllocSend ==
    /\ apc = "send"
    /\ LET k == FirstMissing(new_players)
           got == {new_players[i] : i \in 1..(k - 1)}
       IN /\ cstate' = [i \in Identities |->
                          IF i \in got /\ cstate[i] = "waiting" THEN "served"
                          ELSE cstate[i]]
          /\ replies' = [i \in Identities |->
                           IF i \in got THEN Append(replies[i], QuickMatchReply(i, mport[cur]))
                           ELSE replies[i]]
          /\ sent' = [sent EXCEPT ![cur] = (k > 1)]
          /\ apc' = IF k <= Len(new_players) THEN "dead" ELSE "poll"
    /\ UNCHANGED <<matchVars, gameVars, storeVars, mwhitelist, updates, cpass, db, logged_in, nextId, cuser, connection_queue, notices, requests,
                   new_players, cur, match_limit, ports_to_use, mpc, mport,
                   mplayers, ready, result>>

(***************************************************************************)
(* MatchProcessJanitor.run and the worker it starts (server_app)           *)
(***************************************************************************)
\* server_app, lines 37-75: set up, build the whitelist table, fire ready_event
WorkerReady(m) ==
    /\ mpc[m] = "boot"
    /\ ready' = [ready EXCEPT ![m] = TRUE]
    /\ mpc' = [mpc EXCEPT ![m] = "connecting"]
    /\ UNCHANGED <<matchVars, gameVars, storeVars, mwhitelist, replies, updates, cpass, db, logged_in, nextId, cstate, cuser, connection_queue, notices,
                   apc, requests, new_players, cur, match_limit, ports_to_use,
                   mport, mplayers, sent, result>>

\* the logged-in set after logoff for the users of ps in order, up to a KeyError
RECURSIVE logoffAll(_, _)
logoffAll(L, ps) ==
    IF ps = <<>> THEN [set |-> L, raised |-> FALSE]
    ELSE IF logoffRaises(L, cuser[Head(ps)]) THEN [set |-> L, raised |-> TRUE]
    ELSE logoffAll(logoff(L, cuser[Head(ps)]), Tail(ps))

\* server_app, lines 80-84: the connect timeout fires and the worker returns 1;
\* run, lines 138-142: no ranking map, so the janitor goes on to log the players off
WorkerConnectTimeout(m) ==
    /\ mpc[m] = "connecting"
    /\ LET r == logoffAll(logged_in, mplayers[m])
       IN /\ logged_in' = r.set
          /\ mpc' = [mpc EXCEPT ![m] = IF r.raised THEN "dead" ELSE "cleanup"]
          /\ result' = [result EXCEPT ![m] = "failed"]
    /\ UNCHANGED <<matchVars, gameVars, storeVars, mwhitelist, replies, updates, cpass, db, nextId, cstate, cuser, connection_queue, notices, apc,
                   requests, new_players, cur, match_limit, ports_to_use, mport,
                   mplayers, ready, sent>>

\* run, lines 138-139: update_ranking is called once if the worker returned a dict
update_calls(res) == IF res = "ranking" THEN 1 ELSE 0

\* server_app, line 253: the ranking map is keyed by the names the clients gave
\* when they connected to the match server, so equal names share one key
ranking_keys(names) == {names[i] : i \in DOMAIN names}

\* update_ranking, lines 176-179: the keys are lowercased and get_multi returns
\* the stored records among them
rated_entries(keys) == {n \in {Lower(k) : k \in keys} : db[n] # NoPassword}

\* update_ranking, line 184: rate() needs at least two rating groups and raises
\* ValueError otherwise
update_ranking_raises(keys) == Cardinality(rated_entries(keys)) < 2

\* server_app, lines 37-75, fails before ready_event.set() (the port cannot be
\* bound, the environment or the dataframe cannot be created): the event stays
\* unset. Either app.start raises in the janitor thread, which ends it, or it
\* returns no ranking map and the janitor goes on with its logoff loop.
WorkerFailsBeforeReady(m) ==
    /\ mpc[m] = "boot"
    /\ result' = [result EXCEPT ![m] = "crashed"]
    /\ \E raises \in BOOLEAN :
          LET r == logoffAll(logged_in, mplayers[m])
          IN IF raises
             THEN /\ mpc' = [mpc EXCEPT ![m] = "dead"]
                  /\ UNCHANGED logged_in
             ELSE /\ logged_in' = r.set
                  /\ mpc' = [mpc EXCEPT ![m] = IF r.raised THEN "dead" ELSE "cleanup"]
    /\ UNCHANGED <<matchVars, gameVars, storeVars, mwhitelist, replies, updates, cpass, db, nextId, cstate, cuser,
                   connection_queue, notices, apc, requests, new_players, cur, match_limit,
                   ports_to_use, mport, mplayers, ready, sent>>

\* server_app, lines 81-256: the selected clients connect with their tokens and the
\* worker returns 2 (start timeout) or the ranking map;
\* run, lines 138-142: update_ranking on a ranking map, then log every player off
WorkerReturn(m, res) ==
    /\ mpc[m] = "connecting"
    /\ \A i \in SeqToSet(mplayers[m]) : cstate[i] = "served"
    /\ updates' = [updates EXCEPT ![m] = @ + update_calls(res)]
    /\ result' = [result EXCEPT ![m] = res]
    /\ \E names \in [DOMAIN mplayers[m] -> Usernames] :
          IF update_calls(res) > 0 /\ update_ranking_raises(ranking_keys(names))
          THEN /\ mpc' = [mpc EXCEPT ![m] = "dead"]
               /\ UNCHANGED logged_in
          ELSE LET r == logoffAll(logged_in, mplayers[m])
               IN /\ logged_in' = r.set
                  /\ mpc' = [mpc EXCEPT ![m] = IF r.raised THEN "dead" ELSE "cleanup"]
    /\ UNCHANGED <<matchVars, gameVars, storeVars, mwhitelist, replies, cpass, db, nextId, cstate, cuser, connection_queue, notices, apc,
                   requests, new_players, cur, match_limit, ports_to_use, mport,
                   mplayers, ready, sent>>

\* faulty variant: the permit is released without the port being put back
JanitorPutPortSkipped(m) ==
    /\ mpc[m] = "cleanup"
    /\ ports_to_use' = ports_to_use
    /\ mpc' = [mpc EXCEPT ![m] = "release"]
    /\ UNCHANGED <<matchVars, gameVars, storeVars, mwhitelist, replies, updates, cpass, db, logged_in, nextId, cstate, cuser, connection_queue, notices,
                   apc, requests, new_players, cur, match_limit, mport, mplayers,
                   ready, sent, result>>

\* run, line 145: ports_to_use_queue.put(port)
JanitorPutPort(m) ==
    /\ mpc[m] = "cleanup"
    /\ ports_to_use' = Append(ports_to_use, mport[m])
    /\ mpc' = [mpc EXCEPT ![m] = "release"]
    /\ UNCHANGED <<matchVars, gameVars, storeVars, mwhitelist, replies, updates, cpass, db, logged_in, nextId, cstate, cuser, connection_queue, notices,
                   apc, requests, new_players, cur, match_limit, mport, mplayers,
                   ready, sent, result>>

\* run, line 146: match_limit.release()
JanitorRelease(m) ==
    /\ mpc[m] = "release"
    /\ match_limit' = match_limit + 1
    /\ mpc' = [mpc EXCEPT ![m] = "done"]
    /\ result' = [result EXCEPT ![m] = "none"]
    /\ UNCHANGED <<matchVars, gameVars, storeVars, mwhitelist, replies, updates, cpass, db, logged_in, nextId, cstate, cuser, connection_queue, notices,
                   apc, requests, new_players, cur, ports_to_use, mport, mplayers,
                   ready, sent>>

NextSched ==
    \/ \E l \in Logins : GetMatch(l[1], l[2])
    \/ \E id \in Identities : Disconnect(id)
    \/ AllocPoll
    \/ AllocAcquire
    \/ AllocSpawn
    \/ AllocWait
    \/ AllocSend
    \/ \E m \in Matches : WorkerReady(m)
    \/ \E m \in Matches : WorkerFailsBeforeReady(m)
    \/ \E m \in Matches : WorkerConnectTimeout(m)
    \/ \E m \in Matches, res \in {"ranking", "failed"} : WorkerReturn(m, res)
    \/ \E m \in Matches : JanitorPutPort(m)
    \/ \E m \in Matches : JanitorRelease(m)

(***************************************************************************)
(* The match server: server_app of match_server.py                         *)
(***************************************************************************)
\* all orders in which the elements of S can be listed
Orders(S) ==
    {o \in [1..Cardinality(S) -> S] : \A i, j \in 1..Cardinality(S) : o[i] = o[j] => i = j}

\* server_app, line 70
whitelist_used == Len(whitelist) > 0

InitMatch ==
    /\ spc = "boot"
    /\ whitelist \in {<<>>, <<"t1", "t2">>}
    /\ whitelist_connected = <<>>
    /\ ready_event = FALSE
    /\ players = <<>>
    /\ observations = {}
    /\ num_players = -1
    /\ ret = "none"
    /\ terminal = FALSE
    /\ server_no_longer_joinable = FALSE
    /\ rows = {}
    /\ authentication_key = [p \in Sessions |-> NoKey]
    /\ number = [p \in Sessions |-> -1]
    /\ ready_for_start = {}
    /\ ever_accepted = {}
    /\ rejected = {}

\* server_app, lines 37-80: set-up, the whitelist table, ready_event.set()
ServerBoot ==
    /\ spc = "boot"
    /\ whitelist_connected' = [k \in SeqToSet(whitelist) |-> FALSE]
    /\ ready_event' = TRUE
    /\ spc' = "connecting"
    /\ UNCHANGED <<schedVars, gameVars, whitelist, players, observations, num_players, ret,
                   terminal, server_no_longer_joinable, rows, authentication_key,
                   number, ready_for_start, ever_accepted, rejected>>

\* ClientEnvironment.connect, lines 226-230: a client adds its Player row
\* (Player.__init__: number = -1) with the key it was given
ClientConnect(key) ==
    /\ spc = "connecting"
    /\ \E p \in Sessions :
          /\ authentication_key[p] = NoKey
          /\ \A q \in Sessions : q < p => authentication_key[q] # NoKey
          /\ authentication_key' = [authentication_key EXCEPT ![p] = key]
          /\ rows' = rows \cup {p}
    /\ UNCHANGED <<schedVars, gameVars, spc, whitelist, whitelist_connected, ready_event,
                   players, observations, num_players, ret, terminal,
                   server_no_longer_joinable, number, ready_for_start,
                   ever_accepted, rejected>>

\* a client drops out while the server waits for players: its row disappears
ClientLeave(p) ==
    /\ spc = "connecting"
    /\ p \in rows
    /\ rows' = rows \ {p}
    /\ UNCHANGED <<schedVars, gameVars, spc, whitelist, whitelist_connected, ready_event,
                   players, observations, num_players, ret, terminal,
                   server_no_longer_joinable, authentication_key, number,
                   ready_for_start, ever_accepted, rejected>>

\* server_app, line 94
rejectsUnknown(wc, key) == whitelist_used /\ key \notin DOMAIN wc

\* faulty variant: a key that is in use is let in again
rejectsInUseNever(wc, key) == FALSE

\* server_app, line 100
rejectsInUse(wc, key) == whitelist_used /\ wc[key]

\* faulty variant: the key of a player that left stays taken
dropKeyKept(wc, key) == wc

\* server_app, line 123: whitelist_connected[auth_key] = False
dropKey(wc, key) == (key :> FALSE) @@ wc

\* server_app, lines 90-116: the unacknowledged rows, in the order given
RECURSIVE acknowledge(_, _)
acknowledge(order, st) ==
    IF order = <<>> THEN st
    ELSE LET new_id == Head(order)
             auth_key == authentication_key[new_id]
         IN IF rejectsUnknown(st.wc, auth_key) \/ rejectsInUse(st.wc, auth_key)
            THEN acknowledge(Tail(order),
                             [st EXCEPT !.deleted = st.deleted \cup {new_id}])
            ELSE acknowledge(Tail(order),
                             [st EXCEPT !.obs = st.obs \cup {new_id},
                                        !.wc = (auth_key :> TRUE) @@ st.wc])

\* server_app, lines 119-126: the acknowledged players whose row is gone
RECURSIVE dropOut(_, _)
dropOut(gone, st) ==
    IF gone = {} THEN st
    ELSE LET remove_id == CHOOSE r \in gone : TRUE
         IN dropOut(gone \ {remove_id},
                    [st EXCEPT !.wc = dropKey(st.wc, authentication_key[remove_id]),
                               !.obs = st.obs \ {remove_id}])

\* server_app, lines 81-128: one pass of the CONNECTING loop without timeout
ConnectPoll ==
    /\ spc = "connecting"
    /\ Len(players) < MinPlayers
    /\ \E order \in Orders(rows \ SeqToSet(players)) :
          LET st0 == [wc |-> whitelist_connected, obs |-> observations, deleted |-> {}]
              st1 == acknowledge(order, st0)
              current == rows \ st1.deleted
              st2 == dropOut(SeqToSet(players) \ current, st1)
          IN /\ whitelist_connected' = st2.wc
             /\ observations' = st2.obs
             /\ rows' = current
             /\ rejected' = rejected \cup st1.deleted
             /\ ever_accepted' = ever_accepted \cup current
             /\ \E read_all \in Orders(current) : players' = read_all
             /\ spc' = IF Cardinality(current) >= MinPlayers
                       THEN "finalizing" ELSE "connecting"
    /\ UNCHANGED <<schedVars, gameVars, whitelist, ready_event, num_players, ret, terminal,
                   server_no_longer_joinable, authentication_key, number,
                   ready_for_start>>

\* faulty variant: return 1 without close_server
ConnectTimeoutSilent ==
    /\ spc = "connecting"
    /\ Len(players) < MinPlayers
    /\ terminal' = terminal
    /\ ret' = "1"
    /\ spc' = "failed"
    /\ UNCHANGED <<schedVars, gameVars, whitelist, whitelist_connected, ready_event, players,
                   observations, num_players, server_no_longer_joinable, rows,
                   authentication_key, number, ready_for_start, ever_accepted,
                   rejected>>

\* server_app, lines 56-61 and 82-84: the connect timeout fires, return 1
ConnectTimeout ==
    /\ spc = "connecting"
    /\ Len(players) < MinPlayers
    /\ terminal' = TRUE
    /\ ret' = "1"
    /\ spc' = "failed"
    /\ UNCHANGED <<schedVars, gameVars, whitelist, whitelist_connected, ready_event, players,
                   observations, num_players, server_no_longer_joinable, rows,
                   authentication_key, number, ready_for_start, ever_accepted,
                   rejected>>

\* faulty variant: enumerate(players.items(), start=1)
SeatFromOne(k) == k

\* server_app, line 142: the k-th entry of players gets number k - 1
Seat(k) == k - 1

\* server_app, lines 133-154: new_state(num_players=len(players)), finalize_player
Finalize ==
    /\ spc = "finalizing"
    /\ server_no_longer_joinable' = TRUE
    /\ num_players' = Len(players)
    /\ number' = [p \in Sessions |->
                    IF \E k \in 1..Len(players) : players[k] = p
                    THEN Seat(CHOOSE k \in 1..Len(players) : players[k] = p)
                    ELSE number[p]]
    /\ spc' = "awaiting_start"
    /\ UNCHANGED <<schedVars, gameVars, whitelist, whitelist_connected, ready_event, players,
                   observations, ret, terminal, rows, authentication_key,
                   ready_for_start, ever_accepted, rejected>>

\* ClientEnvironment.connect: a client that sees its number >= 0 reports ready
ClientReady(p) ==
    /\ spc = "awaiting_start"
    /\ p \in SeqToSet(players)
    /\ number[p] >= 0
    /\ p \notin ready_for_start
    /\ ready_for_start' = ready_for_start \cup {p}
    /\ UNCHANGED <<schedVars, gameVars, spc, whitelist, whitelist_connected, ready_event,
                   players, observations, num_players, ret, terminal,
                   server_no_longer_joinable, rows, authentication_key, number,
                   ever_accepted, rejected>>

\* server_app, lines 157-171: every player is ready, the game starts
Start ==
    /\ spc = "awaiting_start"
    /\ SeqToSet(players) \subseteq ready_for_start
    /\ spc' = "running"
    /\ UNCHANGED <<schedVars, gameVars, whitelist, whitelist_connected, ready_event, players,
                   observations, num_players, ret, terminal,
                   server_no_longer_joinable, rows, authentication_key, number,
                   ready_for_start, ever_accepted, rejected>>

\* server_app, lines 158-161: the start timeout fires, return 2
StartTimeout ==
    /\ spc = "awaiting_start"
    /\ ~(SeqToSet(players) \subseteq ready_for_start)
    /\ terminal' = TRUE
    /\ ret' = "2"
    /\ spc' = "failed"
    /\ UNCHANGED <<schedVars, gameVars, whitelist, whitelist_connected, ready_event, players,
                   observations, num_players, server_no_longer_joinable, rows,
                   authentication_key, number, ready_for_start, ever_accepted,
                   rejected>>

\* server_app, lines 173-231: the game loop runs until next_state reports terminal
GameOver ==
    /\ spc = "running"
    /\ terminal' = TRUE
    /\ spc' = "cleanup"
    /\ UNCHANGED <<schedVars, gameVars, whitelist, whitelist_connected, ready_event, players,
                   observations, num_players, ret, server_no_longer_joinable, rows,
                   authentication_key, number, ready_for_start, ever_accepted,
                   rejected>>

\* faulty variant: the server state is reset when the match returns
ReturnResetsFlags ==
    /\ spc = "cleanup"
    /\ ret' = "ranking"
    /\ spc' = "done"
    /\ terminal' = FALSE
    /\ server_no_longer_joinable' = FALSE
    /\ UNCHANGED <<schedVars, gameVars, whitelist, whitelist_connected, ready_event, players,
                   observations, num_players, rows, authentication_key, number,
                   ready_for_start, ever_accepted, rejected>>

\* server_app, lines 236-256: clean up and return the ranking map
Return ==
    /\ spc = "cleanup"
    /\ ret' = "ranking"
    /\ spc' = "done"
    /\ UNCHANGED <<schedVars, gameVars, whitelist, whitelist_connected, ready_event, players,
                   observations, num_players, terminal, server_no_longer_joinable,
                   rows, authentication_key, number, ready_for_start, ever_accepted,
                   rejected>>

NextMatch ==
    \/ ServerBoot
    \/ \E key \in Keys : ClientConnect(key)
    \/ \E p \in Sessions : ClientLeave(p)
    \/ ConnectPoll
    \/ ConnectTimeout
    \/ Finalize
    \/ \E p \in Sessions : ClientReady(p)
    \/ Start
    \/ StartTimeout
    \/ GameOver
    \/ Return

(***************************************************************************)
(* The game of the match server: server_app from AWAITING_START on, the    *)
(* environment, and the clients of ClientEnvironment                       *)
(***************************************************************************)
\* the turn-holder lists an environment may return for a match of two seats
TurnLists == {<<0>>, <<1>>, <<0, 1>>, <<1, 0>>}

\* the winners an environment may return with terminal = True
WinnerLists == {<<>>, <<0>>, None}

\* no game is observed: the Player fields as Player.__init__ sets them
InitNoGame ==
    /\ env_kind = "test"
    /\ realtime = FALSE
    /\ calls = 0
    /\ player_turns = <<>>
    /\ elapsed = 0
    /\ endk = 0
    /\ winners = None
    /\ ranking_dict = <<>>
    /\ name = [p \in Sessions |-> "a"]
    /\ action = [p \in Sessions |-> ""]
    /\ turn = {}
    /\ ready_for_action_to_be_taken = {}
    /\ reward_from_last_turn = [p \in Sessions |-> -1]
    /\ acknowledges_game_over = {}
    /\ winner = {}
    /\ cpc = [p \in Sessions |-> "none"]

\* FrameRateKeeper.tick after e ticks since start_timeout(limit): timed out?
tick(e, limit) == (e + 1) > limit

\* server_app, line 152
players_by_number(n) == CHOOSE p \in SeqToSet(players) : number[p] = n

\* server_app, line 182: the players whose number is in player_turns, in the
\* order of the players dict
current_players(turns) == SelectSeq(players, LAMBDA p : number[p] \in SeqToSet(turns))

\* env.is_valid_action
is_valid_action(a) == a \in {"hit", "miss"}

\* faulty variant: the action of a player that is not ready is dropped
queued_action_if_ready(p) ==
    IF p \in ready_for_action_to_be_taken /\ is_valid_action(action[p]) THEN action[p] ELSE ""

\* server_app, lines 192-198: the action queued for player p
queued_action(p) ==
    IF action[p] = "" \/ is_valid_action(action[p]) THEN action[p] ELSE ""

\* server_app, lines 192-198
current_actions(current) == [i \in 1..Len(current) |-> queued_action(current[i])]

\* faulty variant: proceed as soon as one turn-holder is ready
ready_any(move_timeout, current) ==
    realtime \/ move_timeout
        \/ \E i \in 1..Len(current) : current[i] \in ready_for_action_to_be_taken

\* server_app, line 185
ready_to_proceed(move_timeout, current) ==
    realtime \/ move_timeout
        \/ \A i \in 1..Len(current) : current[i] \in ready_for_action_to_be_taken

\* TestGame.next_state: int(actions[0]) raises on the empty string; "hit" is the
\* action equal to the state
test_next_state(turns, acts) ==
    IF Len(acts) = 0 \/ acts[1] = ""
    THEN {[raises |-> TRUE, turns |-> turns, rewards |-> <<>>,
           terminal |-> FALSE, winners |-> None]}
    ELSE {[raises |-> FALSE,
           turns |-> <<(turns[1] + 1) % MaxPlayers>>,
           rewards |-> <<IF acts[1] = "hit" THEN 0 ELSE -5>>,
           terminal |-> (acts[1] = "hit"),
           winners |-> IF acts[1] = "hit" THEN turns ELSE None]}

\* BaseEnvironment.next_state of some other environment: any turn-holder list,
\* terminal or not, any winners when terminal; the i-th reward, which is the
\* reward of seat players[i], is the number of that seat
any_next_state(turns, acts) ==
    {[raises |-> FALSE, turns |-> t, rewards |-> turns, terminal |-> FALSE, winners |-> None] :
        t \in TurnLists}
    \cup
    {[raises |-> FALSE, turns |-> t, rewards |-> turns, terminal |-> TRUE, winners |-> w] :
        t \in TurnLists, w \in WinnerLists}

next_state(turns, acts) ==
    IF env_kind = "test" THEN test_next_state(turns, acts) ELSE any_next_state(turns, acts)

\* env.new_state: the first turn-holder list
new_state == IF env_kind = "test" THEN {<<0>>} ELSE TurnLists

\* a match of min_players sessions right after FINALIZING (server_app, lines
\* 133-157), its clients in the loop of connect()
InitGame ==
    /\ spc = "awaiting_start"
    /\ whitelist = <<>>
    /\ whitelist_connected = ("x" :> TRUE)
    /\ ready_event = TRUE
    /\ players = AscendingSeq(1..MinPlayers)
    /\ observations = 1..MinPlayers
    /\ num_players = MinPlayers
    /\ ret = "none"
    /\ terminal = FALSE
    /\ server_no_longer_joinable = TRUE
    /\ rows = 1..MinPlayers
    /\ authentication_key = [p \in Sessions |-> IF p \in 1..MinPlayers THEN "x" ELSE NoKey]
    /\ number = [p \in Sessions |->
                    IF p \in 1..MinPlayers
                    THEN Seat(CHOOSE k \in 1..MinPlayers : players[k] = p)
                    ELSE -1]
    /\ ready_for_start = {}
    /\ ever_accepted = 1..MinPlayers
    /\ rejected = {}
    /\ env_kind \in {"test", "any"}
    /\ realtime \in BOOLEAN
    /\ calls = 0
    /\ player_turns \in new_state
    /\ elapsed = 0
    /\ endk = 0
    /\ winners = None
    /\ ranking_dict = <<>>
    /\ name \in {[p \in Sessions |-> "a"], [p \in Sessions |-> IF p = 1 THEN "a" ELSE "b"]}
    /\ action = [p \in Sessions |-> ""]
    /\ turn = {p \in 1..MinPlayers : number[p] \in SeqToSet(player_turns)}
    /\ ready_for_action_to_be_taken = {}
    /\ reward_from_last_turn = [p \in Sessions |-> -1]
    /\ acknowledges_game_over = {}
    /\ winner = {}
    /\ cpc = [p \in Sessions |-> IF p \in 1..MinPlayers THEN "connect" ELSE "none"]

\* server_app, lines 158-163: a tick of the wait for ready_for_start; on the
\* start timeout close_server and return 2
StartTick ==
    /\ spc = "awaiting_start"
    /\ ~(SeqToSet(players) \subseteq ready_for_start)
    /\ elapsed' = elapsed + 1
    /\ IF tick(elapsed, StartTicks)
       THEN terminal' = TRUE /\ ret' = "2" /\ spc' = "failed"
       ELSE UNCHANGED <<terminal, ret, spc>>
    /\ UNCHANGED <<schedVars, whitelist, whitelist_connected, ready_event, players,
                   observations, num_players, server_no_longer_joinable, rows,
                   authentication_key, number, ready_for_start, ever_accepted,
                   rejected, env_kind, realtime, calls, player_turns, endk, winners,
                   ranking_dict, name, action, turn, ready_for_action_to_be_taken,
                   reward_from_last_turn, acknowledges_game_over, winner, cpc>>

\* server_app, lines 158 and 168-173: every player is ready, the game starts
GameStart ==
    /\ spc = "awaiting_start"
    /\ SeqToSet(players) \subseteq ready_for_start
    /\ spc' = "running"
    /\ elapsed' = 0
    /\ UNCHANGED <<schedVars, whitelist, whitelist_connected, ready_event, players,
                   observations, num_players, ret, terminal,
                   server_no_longer_joinable, rows, authentication_key, number,
                   ready_for_start, ever_accepted, rejected, env_kind, realtime, calls,
                   player_turns, endk, winners, ranking_dict, name, action, turn,
                   ready_for_action_to_be_taken, reward_from_last_turn,
                   acknowledges_game_over, winner, cpc>>

\* server_app, line 202: players=player_turns
handed_players(turns) == turns

\* faulty variant: the move timeout is not started again
restart_never(e) == e + 1

\* server_app, line 231: fr.start_timeout(timeout.move)
restart_timeout(e) == 0

\* server_app, lines 174-231: one pass of the game loop
GameTick ==
    /\ spc = "running"
    /\ LET move_timeout == tick(elapsed, MoveTicks)
           current == current_players(player_turns)
           acts == current_actions(current)
       IN IF ~ready_to_proceed(move_timeout, current)
          THEN /\ elapsed' = elapsed + 1
               /\ UNCHANGED <<calls, spc, ret, terminal, player_turns, winners, turn,
                              ready_for_action_to_be_taken, reward_from_last_turn,
                              winner>>
          ELSE \E out \in next_state(handed_players(player_turns), acts) :
                 LET zipped == {current[i] : i \in {j \in 1..Len(current) : j <= Len(out.rewards)}}
                     rewarded == [p \in Sessions |->
                                     IF p \in zipped
                                     THEN out.rewards[CHOOSE i \in 1..Len(current) : current[i] = p]
                                     ELSE reward_from_last_turn[p]]
                 IN /\ calls' = (calls + 1) % 2
                    /\ IF out.raises \/ (out.terminal /\ out.winners = None)
                       THEN \* the exception leaves server_app; nothing was committed
                            /\ spc' = "crashed"
                            /\ ret' = "exception"
                            /\ elapsed' = elapsed + 1
                            /\ UNCHANGED <<terminal, player_turns, winners, turn,
                                           ready_for_action_to_be_taken,
                                           reward_from_last_turn, winner>>
                       ELSE /\ player_turns' = out.turns
                            /\ winners' = out.winners
                            /\ reward_from_last_turn' = rewarded
                            /\ ready_for_action_to_be_taken' =
                                   ready_for_action_to_be_taken \ zipped
                            /\ turn' = (turn \ zipped)
                                   \cup {players_by_number(n) : n \in SeqToSet(out.turns)}
                            /\ terminal' = out.terminal
                            /\ winner' = IF out.terminal
                                         THEN winner \cup {players_by_number(n) :
                                                              n \in SeqToSet(out.winners)}
                                         ELSE winner
                            /\ spc' = IF out.terminal THEN "cleanup" ELSE "running"
                            /\ elapsed' = restart_timeout(elapsed)
                            /\ ret' = ret
    /\ UNCHANGED <<schedVars, whitelist, whitelist_connected, ready_event, players,
                   observations, num_players, server_no_longer_joinable, rows,
                   authentication_key, number, ready_for_start, ever_accepted,
                   rejected, env_kind, realtime, endk, ranking_dict, name, action,
                   acknowledges_game_over, cpc>>

\* server_app, lines 236-247: every player gets the turn, the state is pushed,
\* the end timeout starts
GamePublish ==
    /\ spc = "cleanup"
    /\ turn' = SeqToSet(players)
    /\ elapsed' = 0
    /\ endk' = 1
    /\ spc' = "ending"
    /\ UNCHANGED <<schedVars, whitelist, whitelist_connected, ready_event, players,
                   observations, num_players, ret, terminal,
                   server_no_longer_joinable, rows, authentication_key, number,
                   ready_for_start, ever_accepted, rejected, env_kind, realtime, calls,
                   player_turns, winners, ranking_dict, name, action,
                   ready_for_action_to_be_taken, reward_from_last_turn,
                   acknowledges_game_over, winner, cpc>>

\* server_app, lines 248-250: one evaluation of the wait for a player's
\* acknowledgement
EndTick ==
    /\ spc = "ending"
    /\ endk <= Len(players)
    /\ IF players[endk] \in acknowledges_game_over
       THEN endk' = endk + 1 /\ elapsed' = elapsed
       ELSE /\ elapsed' = elapsed + 1
            /\ endk' = IF tick(elapsed, EndTicks) THEN endk + 1 ELSE endk
    /\ UNCHANGED <<schedVars, spc, whitelist, whitelist_connected, ready_event, players,
                   observations, num_players, ret, terminal,
                   server_no_longer_joinable, rows, authentication_key, number,
                   ready_for_start, ever_accepted, rejected, env_kind, realtime, calls,
                   player_turns, winners, ranking_dict, name, action, turn,
                   ready_for_action_to_be_taken, reward_from_last_turn,
                   acknowledges_game_over, winner, cpc>>

\* BaseEnvironment.compute_ranking: seat -> 0 for a winner, 1 otherwise
compute_ranking(seats, won) == [n \in seats |-> IF n \in SeqToSet(won) THEN 0 ELSE 1]

\* server_app, line 253: the dict comprehension keyed by Player.name; of two
\* seats with one name the later one stays
ranking_by_name(rankings) ==
    [nm \in {name[players_by_number(n)] : n \in DOMAIN rankings} |->
        LET last == CHOOSE n \in DOMAIN rankings :
                        /\ name[players_by_number(n)] = nm
                        /\ \A n2 \in DOMAIN rankings :
                              name[players_by_number(n2)] = nm => n2 <= n
        IN rankings[last]]

\* server_app, lines 252-256
GameReturn ==
    /\ spc = "ending"
    /\ endk > Len(players)
    /\ ranking_dict' = ranking_by_name(compute_ranking(0..(Len(players) - 1), winners))
    /\ ret' = "ranking"
    /\ spc' = "done"
    /\ UNCHANGED <<schedVars, whitelist, whitelist_connected, ready_event, players,
                   observations, num_players, terminal, server_no_longer_joinable,
                   rows, authentication_key, number, ready_for_start, ever_accepted,
                   rejected, env_kind, realtime, calls, player_turns, elapsed, endk,
                   winners, name, action, turn, ready_for_action_to_be_taken,
                   reward_from_last_turn, acknowledges_game_over, winner, cpc>>

\* ClientEnvironment.connect, lines 237-276: the loop ends with a ConnectionError
\* when the server state is terminal, else with the player's number
ClientConnected(p) ==
    /\ cpc[p] = "connect"
    /\ IF terminal
       THEN cpc' = [cpc EXCEPT ![p] = "raised"] /\ UNCHANGED ready_for_start
       ELSE /\ number[p] >= 0
            /\ ready_for_start' = ready_for_start \cup {p}
            /\ cpc' = [cpc EXCEPT ![p] = "idle"]
    /\ UNCHANGED <<schedVars, spc, whitelist, whitelist_connected, ready_event,
                   players, observations, num_players, ret, terminal,
                   server_no_longer_joinable, rows, authentication_key, number,
                   ever_accepted, rejected, env_kind, realtime, calls, player_turns,
                   elapsed, endk, winners, ranking_dict, name, action, turn,
                   ready_for_action_to_be_taken, reward_from_last_turn,
                   acknowledges_game_over, winner>>

\* ClientEnvironment.wait_for_turn is called
ClientWaitForTurn(p) ==
    /\ cpc[p] = "idle"
    /\ cpc' = [cpc EXCEPT ![p] = "waiting"]
    /\ UNCHANGED <<schedVars, matchVars, env_kind, realtime, calls, player_turns, elapsed,
                   endk, winners, ranking_dict, name, action, turn,
                   ready_for_action_to_be_taken, reward_from_last_turn,
                   acknowledges_game_over, winner>>

\* ClientEnvironment.wait_for_turn, lines 296-305: the loop ends when the turn
\* flag is set, or with a ConnectionError when the server state is terminal
ClientWaitEnds(p) ==
    /\ cpc[p] = "waiting"
    /\ p \in turn \/ terminal
    /\ cpc' = [cpc EXCEPT ![p] = IF p \in turn THEN "idle" ELSE "raised"]
    /\ UNCHANGED <<schedVars, matchVars, env_kind, realtime, calls, player_turns, elapsed,
                   endk, winners, ranking_dict, name, action, turn,
                   ready_for_action_to_be_taken, reward_from_last_turn,
                   acknowledges_game_over, winner>>

\* ClientEnvironment.step, lines 349-352 and 358-367: step(a) is called
ClientStep(p, a) ==
    /\ cpc[p] = "idle"
    /\ IF ~terminal
       THEN /\ action' = [action EXCEPT ![p] = a]
            /\ ready_for_action_to_be_taken' = ready_for_action_to_be_taken \cup {p}
            /\ cpc' = [cpc EXCEPT ![p] = "stepping"]
            /\ UNCHANGED acknowledges_game_over
       ELSE /\ acknowledges_game_over' = acknowledges_game_over \cup {p}
            /\ cpc' = [cpc EXCEPT ![p] = "over"]
            /\ UNCHANGED <<action, ready_for_action_to_be_taken>>
    /\ UNCHANGED <<schedVars, matchVars, env_kind, realtime, calls, player_turns, elapsed,
                   endk, winners, ranking_dict, name, turn, reward_from_last_turn,
                   winner>>

\* ClientEnvironment.step, line 354: the loop condition is false
step_loop_ends(p) == p \in turn /\ p \notin ready_for_action_to_be_taken

\* ClientEnvironment.step, lines 354-367: the loop ends, step returns
ClientStepEnds(p) ==
    /\ cpc[p] = "stepping"
    /\ step_loop_ends(p)
    /\ IF terminal
       THEN /\ acknowledges_game_over' = acknowledges_game_over \cup {p}
            /\ cpc' = [cpc EXCEPT ![p] = "over"]
       ELSE /\ cpc' = [cpc EXCEPT ![p] = "idle"]
            /\ UNCHANGED acknowledges_game_over
    /\ UNCHANGED <<schedVars, matchVars, env_kind, realtime, calls, player_turns, elapsed,
                   endk, winners, ranking_dict, name, action, turn,
                   ready_for_action_to_be_taken, reward_from_last_turn, winner>>

\* the steps of the match server
ServerGame ==
    \/ StartTick
    \/ GameStart
    \/ GameTick
    \/ GamePublish
    \/ EndTick
    \/ GameReturn

NextGame ==
    \/ ServerGame
    \/ \E p \in Sessions : ClientConnected(p)
    \/ \E p \in Sessions : ClientWaitForTurn(p)
    \/ \E p \in Sessions : ClientWaitEnds(p)
    \/ \E p \in Sessions : \E a \in Actions \ {""} : ClientStep(p, a)
    \/ \E p \in Sessions : ClientStepEnds(p)

(***************************************************************************)
(* RankingDatabase as an object shared by the login thread, the allocation *)
(* loop and the janitors. Every block under __db_lock is one step.         *)
(***************************************************************************)
MaxRows == 4

Janitors == {1, 2}

\* the usernames with a record when two matches are under way, and a new one
StoreUsers == {"a", "b", "c", "d"}
NewUser == "e"
StoreLogins == {<<"a", "p">>, <<"a", "q">>, <<NewUser, "p">>}

NoRow == [username |-> NoUser, password |-> NoPassword, mu |-> 0]

\* set, line 115: the row inserted for a user, with the default rating. The
\* rating of a row is represented by the number of rating passes written to it.
new_row(u, pw) == [username |-> Lower(u), password |-> pw, mu |-> 0]

\* set, lines 112-116: INSERT INTO userz VALUES (...); the table has no key
insert(table, u, pw) == Append(table, new_row(u, pw))

\* get, lines 68-72: SELECT ... WHERE username=?, fetchone()
get(table, u) ==
    LET found == SelectSeq(table, LAMBDA r : r.username = Lower(u))
    IN IF found = <<>> THEN NoRow ELSE Head(found)

\* get_multi, lines 96-100: SELECT ... WHERE username IN (...), fetchall()
get_multi(table, names) ==
    SelectSeq(table, LAMBDA r : r.username \in {Lower(n) : n \in names})

\* update_ranking, lines 180-184: the new rating of every entry, computed by
\* rate() from the ratings that were read; ChainMap keeps the first entry of a name
rated(entries, n) ==
    LET first == CHOOSE i \in 1..Len(entries) :
                    /\ entries[i].username = n
                    /\ \A k \in 1..(i - 1) : entries[k].username # n
    IN entries[first].mu + 1

\* update_ranking, lines 187-192: UPDATE userz SET mu=?, sigma=? WHERE username=?
\* for every rated name, and commit
write_ratings(table, entries) ==
    [i \in 1..Len(table) |->
        IF \E k \in 1..Len(entries) : entries[k].username = table[i].username
        THEN [table[i] EXCEPT !.mu = rated(entries, table[i].username)]
        ELSE table[i]]

InitNoStore ==
    /\ userz = <<>>
    /\ lpc = "idle"
    /\ lreq = <<NoUser, NoPassword>>
    /\ lentry = NoRow
    /\ jpc = [j \in Janitors |-> "done"]
    /\ jnames = [j \in Janitors |-> <<>>]
    /\ jentries = [j \in Janitors |-> <<>>]
    /\ jleft = [j \in Janitors |-> <<>>]

\* the usernames selected for the two matches
player_list(j) == IF j = 1 THEN <<"a", "b">> ELSE <<"c", "d">>

\* two matches have ended with a ranking map; its keys are the names the clients
\* gave to the match server: their usernames or the name of another user
InitStore ==
    /\ userz = <<new_row("a", "p"), new_row("b", "p"), new_row("c", "p"), new_row("d", "p")>>
    /\ logged_in = StoreUsers
    /\ lpc = "idle"
    /\ lreq = <<NoUser, NoPassword>>
    /\ lentry = NoRow
    /\ jpc = [j \in Janitors |-> "update"]
    /\ jnames \in [Janitors -> [1..2 -> StoreUsers]]
    /\ \A j \in Janitors : \A i \in 1..2 : jnames[j][i] \in {player_list(j)[i], "a"}
    /\ jentries = [j \in Janitors |-> <<>>]
    /\ jleft = [j \in Janitors |-> player_list(j)]

\* login, line 138: entry = self.get(username)
LoginCall(u, pw) ==
    /\ lpc = "idle"
    /\ lreq' = <<u, pw>>
    /\ lentry' = get(userz, u)
    /\ lpc' = "got"
    /\ UNCHANGED <<matchVars, gameVars, schedRest, logged_in, userz, jpc, jnames, jentries, jleft>>

\* login, lines 140-147: NoUser, LoginFail and LoginDuplicate return; the test of
\* the logged-in set is made outside the lock
LoginTest ==
    /\ lpc = "got"
    /\ lpc' = IF lentry = NoRow THEN "set"
              ELSE IF lentry.password # lreq[2] THEN "idle"
              ELSE IF lreq[1] \in logged_in THEN "idle"
              ELSE "add"
    /\ UNCHANGED <<matchVars, gameVars, schedRest, logged_in, userz, lreq, lentry, jpc, jnames,
                   jentries, jleft>>

\* login, lines 149-152: with the lock, __logged_in.add(username); LoginSuccess
LoginAdd ==
    /\ lpc = "add"
    /\ logged_in' = logged_in \cup {lreq[1]}
    /\ lpc' = "idle"
    /\ UNCHANGED <<matchVars, gameVars, schedRest, userz, lreq, lentry, jpc, jnames, jentries, jleft>>

\* MatchmakingLoginThread.run, line 187: database.set(username, password)
LoginSet ==
    /\ lpc = "set"
    /\ userz' = insert(userz, lreq[1], lreq[2])
    /\ lpc' = "again"
    /\ UNCHANGED <<matchVars, gameVars, schedRest, logged_in, lreq, lentry, jpc, jnames, jentries,
                   jleft>>

\* MatchmakingLoginThread.run, line 188: database.login(username, password) again
LoginAgain ==
    /\ lpc = "again"
    /\ lentry' = get(userz, lreq[1])
    /\ lpc' = "got"
    /\ UNCHANGED <<matchVars, gameVars, schedRest, logged_in, userz, lreq, jpc, jnames, jentries,
                   jleft>>

\* update_ranking, lines 176-184: the keys are lowercased, get_multi reads the
\* entries under the lock, rate() raises for fewer than two entries
JanitorRead(j) ==
    /\ jpc[j] = "update"
    /\ LET entries == get_multi(userz, ranking_keys(jnames[j]))
       IN /\ jentries' = [jentries EXCEPT ![j] = entries]
          /\ jpc' = [jpc EXCEPT ![j] = IF Len(entries) < 2 THEN "dead" ELSE "write"]
    /\ UNCHANGED <<matchVars, gameVars, schedRest, logged_in, userz, lpc, lreq, lentry, jnames, jleft>>

\* update_ranking, lines 187-192: the new ratings are written under the lock
JanitorWrite(j) ==
    /\ jpc[j] = "write"
    /\ userz' = write_ratings(userz, jentries[j])
    /\ jpc' = [jpc EXCEPT ![j] = "logoff"]
    /\ UNCHANGED <<matchVars, gameVars, schedRest, logged_in, lpc, lreq, lentry, jnames, jentries,
                   jleft>>

\* MatchProcessJanitor.run, lines 141-142: database.logoff(user) for the next user
JanitorLogoff(j) ==
    /\ jpc[j] = "logoff"
    /\ LET user == Head(jleft[j])
       IN IF logoffRaises(logged_in, user)
          THEN /\ jpc' = [jpc EXCEPT ![j] = "dead"]
               /\ UNCHANGED <<logged_in, jleft>>
          ELSE /\ logged_in' = logoff(logged_in, user)
               /\ jleft' = [jleft EXCEPT ![j] = Tail(@)]
               /\ jpc' = [jpc EXCEPT ![j] = IF Tail(jleft[j]) = <<>> THEN "done" ELSE "logoff"]
    /\ UNCHANGED <<matchVars, gameVars, schedRest, userz, lpc, lreq, lentry, jnames, jentries>>

\* MatchmakingThread.run, line 328: database.logoff(quitting_username) for a
\* disconnect notice; KeyError ends the allocation loop
NoticeLogoff(u) ==
    /\ apc = "poll"
    /\ IF logoffRaises(logged_in, u)
       THEN apc' = "dead" /\ UNCHANGED logged_in
       ELSE apc' = apc /\ logged_in' = logoff(logged_in, u)
    /\ UNCHANGED <<matchVars, gameVars, storeVars, mwhitelist, replies, db, nextId, cstate, cuser, cpass,
                   connection_queue, notices, requests, new_players, cur, match_limit,
                   ports_to_use, mpc, mport, mplayers, ready, sent, result, updates>>

NextStore ==
    \/ \E u \in StoreUsers : NoticeLogoff(u)
    \/ \E l \in StoreLogins : LoginCall(l[1], l[2])
    \/ LoginTest
    \/ LoginAdd
    \/ LoginSet
    \/ LoginAgain
    \/ \E j \in Janitors : JanitorRead(j)
    \/ \E j \in Janitors : JanitorWrite(j)
    \/ \E j \in Janitors : JanitorLogoff(j)

\* set applied to a table, for any username and password
RecordSet(u, pw) ==
    /\ Len(userz) < MaxRows
    /\ userz' = insert(userz, u, pw)
    /\ UNCHANGED <<matchVars, gameVars, schedRest, logged_in, lpc, lreq, lentry, jpc, jnames,
                   jentries, jleft>>

NextRecords == \E l \in Logins : RecordSet(l[1], l[2])

(***************************************************************************)
(* Specifications                                                          *)
(***************************************************************************)
\* a matchmaking server after start_matchmaking_server; no match server is observed
InitSchedOnly == InitSched /\ InitMatch /\ whitelist = <<>> /\ InitNoGame /\ InitNoStore

SpecSched == InitSchedOnly /\ [][NextSched]_vars

\* the allocation loop and every janitor are threads of their own and a match
\* server that is being set up keeps running: a step of theirs that stays
\* possible is taken
AllocStep == AllocPoll \/ AllocAcquire \/ AllocSpawn \/ AllocWait \/ AllocSend

JanitorStep == \E m \in Matches : JanitorPutPort(m) \/ JanitorRelease(m)

SpecSchedFair ==
    /\ SpecSched
    /\ WF_vars(AllocStep)
    /\ WF_vars(JanitorStep)
    /\ WF_vars(\E m \in Matches : WorkerReady(m))

\* one match server about to run server_app, with or without a whitelist;
\* the scheduler stands still
InitMatchOnly ==
    InitMatch /\ InitSched /\ ports_to_use = AscendingSeq(PortRange) /\ InitNoGame /\ InitNoStore

SpecMatch == InitMatchOnly /\ [][NextMatch]_vars

\* one match from AWAITING_START on with its clients; the scheduler stands still
InitGameOnly ==
    InitGame /\ InitSched /\ ports_to_use = AscendingSeq(PortRange) /\ InitNoStore

SpecGame == InitGameOnly /\ [][NextGame]_vars

\* the process of the match server keeps running: FrameRateKeeper.tick returns
\* after one tick period, so the server takes its next step
SpecGameFair == SpecGame /\ WF_vars(ServerGame)

\* the store while the janitors of two matches and the login thread call it
InitStoreOnly ==
    /\ InitStore
    /\ InitMatch /\ whitelist = <<>> /\ InitNoGame
    /\ db = [n \in LowerNames |-> NoPassword]
    /\ nextId = 1
    /\ cstate = [i \in Identities |-> "idle"]
    /\ cuser = [i \in Identities |-> NoUser]
    /\ cpass = [i \in Identities |-> NoPassword]
    /\ connection_queue = <<>> /\ notices = <<>> /\ apc = "poll"
    /\ requests = <<>> /\ new_players = <<>> /\ cur = 0
    /\ match_limit = 0 /\ ports_to_use = <<>>
    /\ mpc = [m \in Matches |-> "none"]
    /\ mport = [m \in Matches |-> -1]
    /\ mplayers = [m \in Matches |-> <<>>]
    /\ ready = [m \in Matches |-> FALSE]
    /\ sent = [m \in Matches |-> FALSE]
    /\ result = [m \in Matches |-> "none"]
    /\ updates = [m \in Matches |-> 0]
    /\ mwhitelist = [m \in Matches |-> <<>>]
    /\ replies = [i \in Identities |-> <<>>]

SpecStore == InitStoreOnly /\ [][NextStore]_vars

\* a table filled by calls of set
InitRecordsOnly == InitSched /\ ports_to_use = AscendingSeq(PortRange)
                   /\ InitMatch /\ whitelist = <<>> /\ InitNoGame /\ InitNoStore

SpecRecords == InitRecordsOnly /\ [][NextRecords]_vars

(***************************************************************************)
(* Properties of the scheduler                                             *)
(***************************************************************************)
\* the janitor thread of match m is running and holds the permit of m
Running(m) == mpc[m] \in {"boot", "connecting", "cleanup", "release"}

\* a match is live from the acquire for it until its janitor has released
Live(m) == mpc[m] \notin {"none", "done"}

\* the permit acquired for the match that is about to be started
Forming == IF apc = "spawn" THEN 1 ELSE 0

Occurrences(seq, x) == Cardinality({i \in 1..Len(seq) : seq[i] = x})

\* C1: the number of live matches never exceeds max_simultaneous_games, and every
\* match that was started holds one permit of the semaphore (no janitor is
\* started without an acquire before it).
C1_LiveMatchesBounded ==
    /\ match_limit >= 0
    /\ Cardinality({m \in Matches : Live(m)}) + Forming <= MaxGames
    /\ match_limit + Cardinality({m \in Matches : Live(m)}) + Forming = MaxGames

\* C1 witness: one match is live and the loop is blocked in acquire() with enough
\* players pending for a second match.
C1_Witness ==
    /\ apc = "acquire"
    /\ match_limit = 0
    /\ Len(requests) >= players_per_game
    /\ \E m \in Matches : Live(m)

\* C2: when the janitor of a match has ended, however the match went, the port of
\* the match is back in the pool exactly once (or drawn again by a later match)
\* and its permit is back: only running janitors hold permits.
C2_ReclaimedExactlyOnce ==
    (\E m \in Matches : mpc[m] \in {"done", "dead"}) =>
        /\ \A m \in Matches : mpc[m] \in {"done", "dead"} =>
              \/ Occurrences(ports_to_use, mport[m]) = 1
              \/ /\ Occurrences(ports_to_use, mport[m]) = 0
                 /\ \E m2 \in Matches : Running(m2) /\ mport[m2] = mport[m]
        /\ match_limit + Cardinality({m \in Matches : Running(m)}) + Forming = MaxGames

\* the sessions of username u that have not ended: a request in the login queue
\* or in the pending map, or a seat in a match whose janitor has not yet logged
\* its players off
Unfinished(u) ==
    {i \in Identities :
        /\ cuser[i] = u
        /\ \/ i \in SeqToSet(connection_queue)
           \/ i \in SeqToSet(requests)
           \/ \E m \in Matches : mpc[m] \in {"boot", "connecting"}
                                  /\ i \in SeqToSet(mplayers[m])}

\* C3: a username owns at most one unfinished session at a time.
C3_OneSessionPerUsername ==
    \A u \in Usernames : Cardinality(Unfinished(u)) <= 1

\* the step of the allocation loop that starts a match
SpawnStep == apc = "spawn" /\ apc' = "wait"

ArrivalOrder(id) == id

IsOldestFirst(seq) ==
    \A i, j \in 1..Len(seq) : i < j => ArrivalOrder(seq[i]) < ArrivalOrder(seq[j])

\* C5: the pending map is kept in arrival order, and a match takes the
\* players_per_game oldest entries: everything left pending arrived later, in
\* unchanged relative order.
C5_FifoSelection ==
    /\ [](IsOldestFirst(requests \o connection_queue))
    /\ [][SpawnStep =>
            LET chosen == SeqToSet(mplayers'[cur'])
            IN /\ Cardinality(chosen) = players_per_game
               /\ chosen \subseteq SeqToSet(requests)
               /\ IsOldestFirst(mplayers'[cur'])
               /\ \A s \in chosen : \A r \in SeqToSet(requests) \ chosen :
                      ArrivalOrder(s) < ArrivalOrder(r)
               /\ requests' = SelectSeq(requests, LAMBDA r : r \notin chosen)]_vars

\* C5 witness: a match was formed while a younger request stayed pending.
C5_Witness ==
    /\ apc = "wait"
    /\ requests # <<>>
    /\ Len(mplayers[cur]) = players_per_game

\* C6 as stated: coordinates go out only after the readiness signal, and the
\* signal is fired by the step that ends the CONNECTING phase.
C6_ReadyAfterConnecting ==
    /\ [](\A m \in Matches : sent[m] => ready[m])
    /\ [][\A m \in Matches : (~ready[m] /\ ready'[m]) => mpc[m] = "connecting"]_vars

\* C6 amended: coordinates go out only after the readiness signal, and the
\* signal is fired once, at the end of the set-up, by the step that enters the
\* CONNECTING phase: no client can have joined before it.
C6_ReadyBeforeConnecting ==
    /\ [](\A m \in Matches : sent[m] => ready[m])
    /\ [](\A i \in Identities : cstate[i] = "served" =>
              \E m \in Matches : i \in SeqToSet(mplayers[m]) /\ ready[m])
    /\ [][\A m \in Matches : (~ready[m] /\ ready'[m]) =>
              mpc[m] = "boot" /\ mpc'[m] = "connecting" /\ ~sent[m]]_vars
    /\ [][\A m \in Matches : ready[m] => ready'[m]]_vars

\* C6 witness: the clients have their coordinates while the match server is
\* still in its CONNECTING phase.
C6_Witness ==
    \E m \in Matches : sent[m] /\ ready[m] /\ mpc[m] = "connecting"

(***************************************************************************)
(* Properties of the match server                                          *)
(***************************************************************************)
\* the sessions the server has acknowledged
Accepted == SeqToSet(players)

Holders(S, key) == {p \in S : authentication_key[p] = key}

\* C7, in every state: with a whitelist, the accepted sessions hold whitelisted
\* tokens and no two of them hold the same token
C7_DistinctTokens ==
    whitelist_used =>
        \A p \in Accepted :
            /\ authentication_key[p] \in SeqToSet(whitelist)
            /\ Holders(Accepted, authentication_key[p]) = {p}

\* C7, in every pass of the CONNECTING loop with a whitelist: a newly seen session
\* is acknowledged only if its token is whitelisted and no session acknowledged
\* before holds it; otherwise its row is deleted; and a rejection changes nothing
\* else: the acknowledged sessions change only by the newly accepted and the
\* dropped ones, so do the observation channels, and a token's flag changes only
\* if a newly accepted or a dropped session holds that token
C7_PassRule ==
    (whitelist_used /\ spc = "connecting"
        /\ (Accepted' # Accepted \/ rejected' # rejected)) =>
        LET newly == rows \ Accepted
            taken == Accepted' \ Accepted
            dropped == Accepted \ Accepted'
        IN /\ \A p \in newly :
                 \/ /\ p \in taken
                    /\ authentication_key[p] \in SeqToSet(whitelist)
                    /\ Holders(Accepted, authentication_key[p]) = {}
                 \/ /\ p \notin taken
                    /\ p \notin rows'
                    /\ p \notin observations'
           /\ taken \subseteq newly
           /\ dropped = Accepted \ rows
           /\ observations' = (observations \ dropped) \cup taken
           /\ \A t \in SeqToSet(whitelist) :
                 Holders(taken \cup dropped, t) = {} =>
                     whitelist_connected'[t] = whitelist_connected[t]

\* C7: a session is accepted during CONNECTING only with a whitelisted token that
\* no accepted session holds, a rejected session loses its row and leaves the rest
\* as it was, and the accepted sessions always hold pairwise distinct whitelisted
\* tokens
C7_WhitelistAcceptance == []C7_DistinctTokens /\ [][C7_PassRule]_vars

\* C7 happens: with a whitelist, a session was rejected for presenting the token
\* an accepted session holds
C7_Witness ==
    /\ whitelist_used
    /\ \E r \in rejected : Holders(Accepted, authentication_key[r]) # {}

Seats == {number[p] : p \in Accepted}

C9_SeatsState ==
    IF server_no_longer_joinable
    THEN /\ Seats = 0..(Len(players) - 1)
         /\ \A p, q \in Accepted : number[p] = number[q] => p = q
    ELSE \A p \in Sessions : number[p] = -1

\* C9: before FINALIZING every session has seat -1; after it the seats of the N
\* sessions of the match are exactly 0..N-1, no two sessions share one, and no
\* seat changes any more
C9_SeatNumbers ==
    []C9_SeatsState /\ [][server_no_longer_joinable => number' = number]_vars

\* C9 happens: a match of at least two sessions was finalized and ran to its end
C9_Witness ==
    /\ server_no_longer_joinable
    /\ Len(players) >= MinPlayers
    /\ spc = "done"

\* C10: the number of sessions given to new_state lies within
\* [min_players, max_players]
C10_NumPlayersInRange ==
    num_players # -1 => (MinPlayers <= num_players /\ num_players <= MaxPlayers)

(***************************************************************************)
(* Properties of the game loop                                             *)
(***************************************************************************)
\* the step is a pass of the game loop of RUNNING
LoopPass == spc = "running" /\ (elapsed' # elapsed \/ calls' # calls)

\* the step calls next_state
Called == spc = "running" /\ calls' # calls

\* the sessions seated at the current turn-holder list
TurnHolders == {p \in SeqToSet(players) : number[p] \in SeqToSet(player_turns)}

\* C11: not in realtime mode, a pass of the game loop calls next_state only if
\* every turn-holder has its action-ready flag set or the move timeout has fired;
\* in realtime mode every pass calls next_state; a pass that does not call it
\* changes no field of a session, no observation and not the game state
C11_ProceedRule ==
    /\ [][Called => \/ realtime
                    \/ tick(elapsed, MoveTicks)
                    \/ TurnHolders \subseteq ready_for_action_to_be_taken]_vars
    /\ [][(LoopPass /\ realtime) => Called]_vars
    /\ [][(LoopPass /\ ~Called) =>
            UNCHANGED <<name, number, action, turn, ready_for_action_to_be_taken,
                        reward_from_last_turn, acknowledges_game_over, winner,
                        ready_for_start, observations, player_turns, winners,
                        terminal, spc>>]_vars

\* C11 happens: not in realtime mode, after a first call of next_state the loop
\* has waited a tick for a turn-holder that is not ready
C11_Witness ==
    /\ spc = "running"
    /\ ~realtime
    /\ calls = 1
    /\ elapsed > 0
    /\ ~(TurnHolders \subseteq ready_for_action_to_be_taken)

\* C12: not in realtime mode the loop never waits longer than the move timeout:
\* the pass at which the timeout has elapsed since it was last started calls
\* next_state whatever the ready flags are, and every call after which the game
\* goes on starts the timeout again
C12_ForcedProgress ==
    /\ []((spc = "running" /\ ~realtime) => elapsed <= MoveTicks)
    /\ [][(LoopPass /\ tick(elapsed, MoveTicks)) => Called]_vars
    /\ [][(Called /\ spc' = "running") => elapsed' = 0]_vars

\* C12 happens: not in realtime mode a session that never submitted an action
\* has been given a reward, and the timeout has been started again
C12_Witness ==
    /\ spc = "running"
    /\ ~realtime
    /\ elapsed = 0
    /\ \E p \in SeqToSet(players) : action[p] = "" /\ reward_from_last_turn[p] # -1

\* the actions the loop hands to next_state in the current state
HandedActions == current_actions(current_players(player_turns))

\* C13, for TestGame: a pass that replaces the empty or invalid pending action of
\* a turn-holder by the empty action hands only empty or valid actions to
\* next_state, and the match goes on (or ends by the rules of the game) without
\* aborting
C13_EmptyActionContinues ==
    /\ [](spc = "running" =>
            \A i \in DOMAIN HandedActions :
                HandedActions[i] = "" \/ is_valid_action(HandedActions[i]))
    /\ [][(Called /\ env_kind = "test"
             /\ \E p \in TurnHolders : action[p] = "" \/ ~is_valid_action(action[p]))
            => (spc' \in {"running", "cleanup"}
                  /\ \A i \in DOMAIN HandedActions : HandedActions[i] = "")]_vars

\* C14: in every executed pass the players list and the actions list handed to
\* next_state have the same length and the i-th action is the queued action of
\* the session seated at the i-th entry of the players list, whatever the order
\* of the turn-holder list is; and the i-th reward goes to that session (in the
\* environment whose i-th reward is the seat number of players[i])
C14_ActionsFollowTurnList ==
    /\ [](spc = "running" =>
            LET handed == handed_players(player_turns)
            IN /\ Len(HandedActions) = Len(handed)
               /\ \A i \in 1..Len(handed) :
                     HandedActions[i] = queued_action(players_by_number(handed[i])))
    /\ [][(Called /\ env_kind = "any" /\ spc' # "crashed") =>
            \A i \in 1..Len(player_turns) :
                reward_from_last_turn'[players_by_number(player_turns[i])]
                    = player_turns[i]]_vars

\* C15: the match fails only by the connect timeout, with fewer than
\* min_players accepted sessions, or by the start timeout, with a session that
\* has not acknowledged readiness; it then has the terminal flag set and a result
\* code instead of a ranking map, and nothing happens any more. RUNNING, where
\* next_state is called, is entered from AWAITING_START only and left for CLEANUP
\* only, so a failed match has never called next_state
C15_TimeoutFails ==
    /\ [](spc = "failed" => (terminal /\ ret \in {"1", "2"}))
    /\ [](ret \in {"1", "2"} => spc = "failed")
    /\ [][(spc' = "failed" /\ spc # "failed") =>
            \/ spc = "connecting" /\ Len(players) < MinPlayers /\ ret' = "1"
            \/ /\ spc = "awaiting_start"
               /\ ~(SeqToSet(players) \subseteq ready_for_start)
               /\ ret' = "2"]_vars
    /\ [][spc = "failed" => UNCHANGED matchVars]_vars
    /\ [][spc' = "running" => spc \in {"awaiting_start", "running"}]_vars
    /\ [][spc = "running" => spc' \in {"running", "cleanup"}]_vars
    /\ [][(spc \in {"cleanup", "done"}) => spc' \in {"cleanup", "done"}]_vars

\* C15 happens: the connect timeout has ended a match that one session had joined
C15_Witness ==
    /\ spc = "failed"
    /\ ret = "1"
    /\ Len(players) = MinPlayers - 1

\* client p is in a loop of connect(), wait_for_turn() or step() whose exit
\* condition is false
Blocked(p) ==
    \/ cpc[p] = "connect" /\ ~terminal /\ number[p] < 0
    \/ cpc[p] = "waiting" /\ p \notin turn /\ ~terminal
    \/ cpc[p] = "stepping" /\ ~step_loop_ends(p)

\* C16: once the match server has returned (failed or done) the terminal flag is
\* visible and no client is blocked: the server writes no field any more, so a
\* client that is blocked then stays blocked for ever
C16_NoClientBlockedForEver ==
    spc \in {"failed", "done"} =>
        /\ terminal
        /\ \A p \in SeqToSet(players) : ~Blocked(p)

\* server_app has returned or was left by an exception
Exited == spc \in {"done", "failed", "crashed"}

\* C17, for TestGame: when from some point on the clients do nothing any more
\* (only the server takes steps), the match server eventually exits
C17_ServerExits == (env_kind = "test" /\ <>[][ServerGame]_vars) => <>Exited

\* C18: CLEANUP waits for the acknowledgements no longer than the end timeout (and
\* one more tick for each session), and the ranking map the server then returns
\* has exactly one entry for each seated session: 0 for a winner, 1 for every
\* other session
C18_RankingMapPerSession ==
    /\ spc = "ending" => elapsed <= EndTicks + Len(players)
    /\ spc = "done" =>
          /\ terminal
          /\ ret = "ranking"
          /\ Cardinality(DOMAIN ranking_dict) = Len(players)
          /\ \A p \in SeqToSet(players) :
                ranking_dict[name[p]] = IF number[p] \in SeqToSet(winners) THEN 0 ELSE 1

\* the janitor of match m has just been handed a ranking map by its worker
RankingReturned(m) == mpc[m] = "connecting" /\ result'[m] = "ranking"

\* C19: when the match worker returns a ranking map, the janitor calls
\* update_ranking exactly once with it, and after that step every username
\* selected for the match is logged off
C19_RankingThenLogoff ==
    [][\A m \in Matches :
          /\ RankingReturned(m) =>
                /\ updates[m] = 0 /\ updates'[m] = 1
                /\ \A i \in SeqToSet(mplayers[m]) : cuser[i] \notin logged_in'
          /\ updates'[m] # updates[m] => RankingReturned(m)]_vars

\* C20: a janitor whose worker ended FAILED has made no update_ranking call and
\* goes on to return the port and release the permit
C20_FailedStillReclaims ==
    \A m \in Matches :
        result[m] = "failed" => updates[m] = 0 /\ mpc[m] \in {"cleanup", "release"}

\* the login thread handles the request of identity id in this step
LoginHandled(id) == nextId = id /\ nextId' = id + 1

FailReplies == {"fail_duplicate", "fail_password"}

\* C21: every login request gets exactly one reply. It is a FAIL, with its type,
\* exactly when the password differs from the stored one or the username is in the
\* logged-in set, and then nothing is queued and the records and the logged-in
\* set are unchanged; otherwise it is SUCCESS, exactly one entry with the fresh
\* identity has been appended to the login queue, the username is logged in and
\* an unknown username has got its record. A reply is never followed by a second
\* reply to the same request.
C21_OneReplyPerLogin ==
    [][\A id \in Identities :
          /\ LoginHandled(id) =>
                LET u == cuser'[id]
                    pw == cpass'[id]
                    known == db[Lower(u)] # NoPassword
                    wrong == known /\ db[Lower(u)] # pw
                IN /\ cstate[id] = "idle"
                   /\ cstate'[id] \in FailReplies \cup {"waiting"}
                   /\ cstate'[id] = "fail_password" <=> wrong
                   /\ cstate'[id] = "fail_duplicate" <=> (~wrong /\ u \in logged_in)
                   /\ cstate'[id] \in FailReplies =>
                         UNCHANGED <<db, logged_in, connection_queue>>
                   /\ cstate'[id] = "waiting" =>
                         /\ id \notin SeqToSet(connection_queue) \cup SeqToSet(requests)
                         /\ connection_queue' = Append(connection_queue, id)
                         /\ logged_in' = logged_in \cup {u}
                         /\ db' = IF known THEN db ELSE [db EXCEPT ![Lower(u)] = pw]
          /\ cstate[id] # "idle" =>
                /\ ~LoginHandled(id)
                /\ cstate[id] \in FailReplies => cstate'[id] = cstate[id]
                /\ cstate'[id] \notin FailReplies \/ cstate[id] \in FailReplies]_vars

\* C21 witness: three requests have been answered, one with each kind of reply
C21_Witness ==
    /\ \E i \in Identities : cstate[i] = "fail_password"
    /\ \E i \in Identities : cstate[i] = "fail_duplicate"
    /\ \E i \in Identities : cstate[i] = "waiting" /\ i \in SeqToSet(connection_queue)

\* C22 as stated: a login attempt for a username that is in the logged-in set is
\* answered with LoginDuplicate whatever password it presents, and changes neither
\* the records nor the logged-in set
C22_DuplicateWhateverCredential ==
    [][\A id \in Identities :
          (LoginHandled(id) /\ cuser'[id] \in logged_in) =>
              /\ cstate'[id] = "fail_duplicate"
              /\ UNCHANGED <<db, logged_in>>]_vars

\* C22 amended: such an attempt is always rejected and changes neither the records
\* nor the logged-in set; the result is LoginDuplicate when the password is the
\* stored one and LoginFail when it is not
C22_LoggedInLoginRejected ==
    [][\A id \in Identities :
          (LoginHandled(id) /\ cuser'[id] \in logged_in) =>
              /\ cstate'[id] \in FailReplies
              /\ cstate'[id] = "fail_duplicate" <=> cpass'[id] = db[Lower(cuser'[id])]
              /\ UNCHANGED <<db, logged_in, connection_queue>>]_vars

\* C22 witness: logged-in usernames were refused once with the stored password
\* and once with another one
C22_Witness ==
    /\ \E i \in Identities : cstate[i] = "fail_duplicate" /\ cuser[i] \in logged_in
    /\ \E i \in Identities : cstate[i] = "fail_password" /\ cuser[i] \in logged_in

\* the allocation loop handles disconnect notices in this step
NoticesHandled == apc = "poll" /\ Len(notices') < Len(notices)

\* the identities whose notices are handled in this step
Quitting == SeqToSet(notices) \ SeqToSet(notices')

\* C23: handling disconnect notices removes from the pending map exactly the
\* entries of the disconnecting identities that are still pending, keeps the
\* other entries and their order, and logs off exactly the users of the
\* disconnecting identities that were pending
C23_NoticeRemovesOnlyPending ==
    [][NoticesHandled =>
          LET pending == requests \o connection_queue
              gone == Quitting \cap SeqToSet(pending)
          IN /\ requests' = SelectSeq(pending, LAMBDA i : i \notin gone)
             /\ logged_in' \subseteq logged_in
             /\ logged_in \ logged_in' = {cuser[i] : i \in gone}]_vars

\* match m holds the port it drew from the pool: from the get() of the spawn
\* until its janitor has put the port back or has ended
PortHeld(m) == mpc[m] \in {"boot", "connecting", "cleanup"}

PortsAccounted == Len(ports_to_use) + Cardinality({m \in Matches : PortHeld(m)})

\* C24: the number of free ports plus the number of ports held by matches never
\* changes, no port is in the pool twice, and no held port is in the pool
C24_PortsConserved ==
    /\ [](/\ \A i, j \in 1..Len(ports_to_use) : ports_to_use[i] = ports_to_use[j] => i = j
          /\ \A m \in Matches : PortHeld(m) => Occurrences(ports_to_use, mport[m]) = 0)
    /\ [][PortsAccounted' = PortsAccounted]_vars

(***************************************************************************)
(* Properties of the ranking store                                         *)
(***************************************************************************)
\* the update_ranking call of janitor j has written its ratings
Written(j) ==
    \/ jpc[j] \in {"logoff", "done"}
    \/ jpc[j] = "dead" /\ Len(jentries[j]) >= 2

\* the update_ranking calls that have written a rating for username n
Passes(n) ==
    {j \in Janitors : Written(j) /\ \E k \in 1..Len(jentries[j]) : jentries[j][k].username = n}

\* C25: the store's operations are atomic with respect to each other, so that no
\* update is lost: the rating of every record is the result of all the
\* update_ranking calls that were completed for its username, as in a serial
\* execution of these calls
C25_NoLostUpdate ==
    \A i \in 1..Len(userz) : userz[i].mu = Cardinality(Passes(userz[i].username))

\* the lowercased keys of the ranking map that janitor j hands to update_ranking
Placements(j) == {Lower(n) : n \in ranking_keys(jnames[j])}

\* C26: the step in which update_ranking persists the new ratings changes the
\* rating of exactly the records of the usernames in the map, and from that step
\* on these usernames are not logged in
C26_RatingsAndFlagsTogether ==
    /\ [][\A j \in Janitors :
            (jpc[j] = "write" /\ jpc'[j] = "logoff") =>
                /\ Len(userz') = Len(userz)
                /\ \A i \in 1..Len(userz) :
                      userz'[i].mu # userz[i].mu <=> userz[i].username \in Placements(j)]_vars
    /\ [](\A j \in Janitors : Written(j) => Placements(j) \cap logged_in = {})

\* the usernames that have a row
Recorded(table) == {table[i].username : i \in 1..Len(table)}

\* C27: set on a username that has a record leaves the table unchanged, and set on
\* a new username adds exactly one row with the default rating: every change of
\* the table appends one row for a username that had none, and no username ever
\* has two rows
C27_SetIdempotent ==
    /\ [][userz' # userz =>
            /\ Len(userz') = Len(userz) + 1
            /\ SubSeq(userz', 1, Len(userz)) = userz
            /\ userz'[Len(userz')].mu = 0
            /\ userz'[Len(userz')].username \notin Recorded(userz)]_vars
    /\ [](\A i, k \in 1..Len(userz) : userz[i].username = userz[k].username => i = k)

\* C28: the terminal flag of the server state never goes back from true to false,
\* and neither does the no-longer-joinable flag
C28_FlagsMonotonic ==
    [][/\ terminal => terminal'
       /\ server_no_longer_joinable => server_no_longer_joinable']_vars

\* C28 witness: a match has ended and returned with both flags still set
C28_Witness ==
    spc = "done" /\ ret = "ranking" /\ terminal /\ server_no_longer_joinable

\* C29: the allocation loop never waits for ever for the readiness signal of the
\* match it has spawned: whenever it is waiting, it later leaves the wait
C29_ReadyWaitEnds == (apc = "wait") ~> (apc # "wait")

\* the step is an executed tick of RUNNING: next_state returned and the result
\* was committed
Executed == Called /\ spc' # "crashed"

\* the entry of the rewards list that belongs to session p, which acted: the
\* reward of TestGame for its guess, and for the other environments the entry at
\* the position of its seat in the list of acting players
OwnReward(p) ==
    IF env_kind = "test"
    THEN (IF queued_action(p) = "hit" THEN 0 ELSE -5)
    ELSE number[p]

\* C30: after FINALIZING and after every executed tick the sessions with the turn
\* flag are exactly the turn-holders the environment returned last; an executed
\* tick clears the action-ready flag of every session that acted and sets its
\* reward to its own entry of the rewards list, and leaves reward and flag of the
\* other sessions as they were
C30_TurnFlagsAndRewards ==
    /\ [](spc \in {"awaiting_start", "running", "cleanup"} => turn = TurnHolders)
    /\ [][Executed =>
            \A p \in SeqToSet(players) :
                IF p \in TurnHolders
                THEN /\ p \notin ready_for_action_to_be_taken'
                     /\ reward_from_last_turn'[p] = OwnReward(p)
                ELSE /\ reward_from_last_turn'[p] = reward_from_last_turn[p]
                     /\ p \in ready_for_action_to_be_taken' <=>
                            p \in ready_for_action_to_be_taken]_vars

\* C31: whenever next_state reports terminal, whatever winners it returns (a list
\* of seats, an empty list, or None), the server leaves RUNNING for CLEANUP with
\* the terminal flag set and exactly the sessions seated at winners marked, never
\* aborts in an environment whose next_state does not raise, and a finished
\* CLEANUP has returned a ranking map
C31_TerminalAnyWinners ==
    /\ [][(Called /\ env_kind = "any") => spc' # "crashed"]_vars
    /\ [][(Called /\ terminal') =>
            /\ spc' = "cleanup"
            /\ winner' = {p \in SeqToSet(players) : number[p] \in SeqToSet(winners')}]_vars
    /\ [](spc = "done" => (terminal /\ ret = "ranking"))

\* the position of session p in the dict of acknowledged players
Position(seq, p) == CHOOSE k \in 1..Len(seq) : seq[k] = p

RepliesSent == apc = "send" /\ apc' # "send"

\* C33: no request is ever sent more than one match reply; a reply goes only to
\* a request selected for a match and carries the port of that match and the
\* token generated for that request's login; the whitelist of a match is exactly
\* the set of the tokens of its selected requests; and when the loop leaves the
\* reply loop of a match, every selected request has been sent its reply and every
\* selected client that was still waiting has its match
C33_RepliesMatchSelection ==
    /\ [](\A i \in Identities :
            /\ Len(replies[i]) <= 1
            /\ replies[i] # <<>> =>
                  \E m \in Matches :
                      /\ i \in SeqToSet(mplayers[m])
                      /\ replies[i][1] = [username |-> cuser[i], server |-> mport[m],
                                          auth_key |-> token_hex(i)])
    /\ [](\A m \in Matches :
            SeqToSet(mwhitelist[m]) = {token_hex(i) : i \in SeqToSet(mplayers[m])})
    /\ [][RepliesSent =>
            \A i \in SeqToSet(new_players) :
                /\ Len(replies'[i]) = 1
                /\ cstate[i] = "waiting" => cstate'[i] = "served"]_vars

\* C34: drawing a port never blocks. The free ports are at least as many as the
\* free permits plus the permit acquired for a match whose port is not drawn yet,
\* so the pool is not empty when the allocation loop draws
C34_PortDrawNeverBlocks ==
    /\ Len(ports_to_use) >= match_limit + Forming
    /\ apc = "spawn" => ports_to_use # <<>>

\* C34 witness: an earlier match has ended and given back port and permit, the
\* permit is taken again, and the pool holds just the one port that is needed
C34_Witness ==
    /\ apc = "spawn"
    /\ cur >= 1
    /\ mpc[cur] = "done"
    /\ Len(ports_to_use) = match_limit + Forming

\* the janitor of match m goes straight to its logoff loop in this step: its
\* worker returned without a ranking map
JanitorLogsOff(m) == mpc[m] = "connecting" /\ result'[m] = "failed"

\* C35: logoff is only called for a username that is logged in. The allocation
\* loop is not ended by the logoff of a disconnect notice, and a janitor that
\* logs its players off finds every one of them logged in and goes on to return
\* port and permit
C35_LogoffOnlyLoggedIn ==
    /\ [][(apc = "poll" /\ notices # <<>>) => apc' # "dead"]_vars
    /\ [][\A m \in Matches :
            JanitorLogsOff(m) =>
                /\ \A i \in SeqToSet(mplayers[m]) : cuser[i] \in logged_in
                /\ mpc'[m] = "cleanup"]_vars

\* C36: a request whose handler has sent its disconnect notice is never selected
\* for a match
C36_QuitNeverSelected ==
    [][SpawnStep => \A i \in SeqToSet(mplayers'[cur']) : cstate[i] # "quit"]_vars

\* the stored usernames of the players selected for the match of janitor j
Selected(j) == {Lower(u) : u \in SeqToSet(player_list(j))}

\* C37: the keys of the ranking map a janitor hands to update_ranking are the
\* usernames selected for its match, and the update changes the rating of no
\* other user
C37_RankingKeysAreSelected ==
    /\ [](\A j \in Janitors : jpc[j] \in {"write", "logoff"} => Placements(j) = Selected(j))
    /\ [][\A j \in Janitors :
            (jpc[j] = "write" /\ jpc'[j] = "logoff") =>
                \A i \in 1..Len(userz) :
                    userz'[i].mu # userz[i].mu => userz[i].username \in Selected(j)]_vars

\* no request is queued or pending, no notice is undelivered and no janitor runs
Quiescent ==
    /\ connection_queue = <<>>
    /\ requests = <<>>
    /\ notices = <<>>
    /\ \A m \in Matches : ~Running(m)

\* C38: a username is logged in exactly while it has an unfinished session (a
\* request in the login queue or the pending map, or a seat in a match whose
\* janitor has not yet logged its players off), and when the scheduler is
\* quiescent nobody is logged in
C38_LoggedInIffSession ==
    /\ \A u \in Usernames : u \in logged_in <=> Unfinished(u) # {}
    /\ Quiescent => logged_in = {}

\* client p writes its action field in this step (ClientEnvironment.step)
Submits(p) == cpc[p] = "idle" /\ cpc'[p] = "stepping"

\* C39: the match server never writes the action field of a session: it changes
\* only when the session's client submits an action. The action handed to
\* next_state for a turn-holder is the content of its field when that is a valid
\* action of the current state and the empty action otherwise, whether or not
\* the action-ready flag is set; so TestGame rewards a turn-holder for the
\* action found in its field
C39_PendingActionKept ==
    /\ [][\A p \in Sessions : action'[p] # action[p] => Submits(p)]_vars
    /\ [](spc = "running" =>
            LET current == current_players(player_turns)
            IN \A i \in 1..Len(current) :
                  HandedActions[i] = IF is_valid_action(action[current[i]])
                                     THEN action[current[i]] ELSE "")
    /\ [][(Executed /\ env_kind = "test") =>
            \A p \in TurnHolders :
                reward_from_last_turn'[p] = IF action[p] = "hit" THEN 0 ELSE -5]_vars

\* C39 witness: not in realtime mode, a turn-holder whose action was executed
\* before has not submitted again, and the move timeout is about to force the tick
\* that uses the action left in its field
C39_Witness ==
    /\ spc = "running"
    /\ ~realtime
    /\ tick(elapsed, MoveTicks)
    /\ \E p \in TurnHolders :
          /\ is_valid_action(action[p])
          /\ p \notin ready_for_action_to_be_taken
          /\ cpc[p] \in {"idle", "waiting"}
          /\ reward_from_last_turn[p] # -1

\* C40: usernames that differ only in letter case are one user: no two
\* spellings of one stored username are logged in together, and the rating
\* lookup of the reply loop finds the record of every selected client
C40_CaseInsensitiveUser ==
    /\ \A u, v \in logged_in : Lower(u) = Lower(v) => u = v
    /\ apc = "send" => FirstMissing(new_players) > Len(new_players)

====
